---- MODULE Spec2Model ----
(***************************************************************************)
(* Task list page: a task list kept in memory, persisted as JSON text in   *)
(* localStorage under one key, rendered into a table body, and mirrored    *)
(* on each add to a sheet, either by fetch POST or by a hidden form posted *)
(* into a hidden iframe.                                                   *)
(*                                                                         *)
(* Strings of the program are sequences of one-character strings, so that  *)
(* trim, JSON text and HTML escaping are computed character by character.  *)
(***************************************************************************)
EXTENDS Integers, Sequences, FiniteSets, TLC

VARIABLES
    variant,         \* which script the page runs: "local", "post", "form"
    now,             \* the value Date.now() returns (milliseconds)
    storage,         \* localStorage.getItem(STORAGE_KEY): Absent or text
    tasks,           \* the in-memory array `tasks`
    dom,             \* the rows of taskTableBody
    taskTitleInput,  \* taskTitleInput.value
    alertOpen,       \* the modal alert() dialog is showing
    sync,            \* one entry per call of the sync function still alive
    saveMessage,     \* the saveMessage element: text, error class, visible
    pendingHides,    \* setTimeout(..., 1800) callbacks not yet run
    pc,              \* position inside addTask (0: no handler is running)
    newTask,         \* addTask's local `newTask` while it runs
    scriptError      \* the script stopped on an uncaught startup exception

vars == <<variant, now, storage, tasks, dom, taskTitleInput, alertOpen, sync,
          saveMessage, pendingHides, pc, newTask, scriptError>>

----------------------------------------------------------------------------
\* Bounds of the model.

\* The first Date.now() reading of the page's life.
StartTime == 9
\* How many milliseconds the clock advances.
MaxTicks == 1
\* The longest task list.
MaxTasks == 2
\* Sync calls and message timers alive at once.
MaxSync == 2

----------------------------------------------------------------------------
\* Characters and numbers as text.

DigitChars == <<"0", "1", "2", "3", "4", "5", "6", "7", "8", "9">>

IsDigit(c) == \E d \in 1..10 : DigitChars[d] = c

DigitValue(c) == (CHOOSE d \in 1..10 : DigitChars[d] = c) - 1

\* String(n) for a non-negative integer: its decimal digits.
RECURSIVE NumberToString(_)
NumberToString(n) ==
    IF n < 10 THEN <<DigitChars[n + 1]>>
    ELSE Append(NumberToString(n \div 10), DigitChars[(n % 10) + 1])

\* NaN stands for Number() of text that is no number; it equals no id.
NaN == -1

RECURSIVE DigitsValue(_, _)
DigitsValue(cs, acc) ==
    IF cs = <<>> THEN acc
    ELSE DigitsValue(Tail(cs), acc * 10 + DigitValue(Head(cs)))

\* Number(text): Number("") is 0, digits give their value, the rest NaN.
Number(cs) ==
    IF \A i \in 1..Len(cs) : IsDigit(cs[i]) THEN DigitsValue(cs, 0) ELSE NaN

IsSpace(c) == c = " "

RECURSIVE TrimStart(_)
TrimStart(cs) ==
    IF cs # <<>> /\ IsSpace(Head(cs)) THEN TrimStart(Tail(cs)) ELSE cs

RECURSIVE TrimEnd(_)
TrimEnd(cs) ==
    IF cs # <<>> /\ IsSpace(cs[Len(cs)])
    THEN TrimEnd(SubSeq(cs, 1, Len(cs) - 1))
    ELSE cs

\* String.prototype.trim
Trim(cs) == TrimEnd(TrimStart(cs))

\* new Date().toLocaleString(): date and time of day to the second, so one
\* text for all the milliseconds of a second.
ToLocaleString(t) == <<"T">> \o NumberToString(t \div 1000)

----------------------------------------------------------------------------
\* JSON.stringify of the task array.

\* EscapeJson as it would be if quotes and backslashes went out as they are.
EscapeJsonVerbatim(cs) == cs

\* The text between the quotes of a JSON string.
RECURSIVE EscapeJson(_)
EscapeJson(cs) ==
    IF cs = <<>> THEN <<>>
    ELSE LET c == Head(cs) IN
         (IF c = "\"" \/ c = "\\" THEN <<"\\", c>> ELSE <<c>>)
             \o EscapeJson(Tail(cs))

QuoteJson(cs) == <<"\"">> \o EscapeJson(cs) \o <<"\"">>

\* One task object, its keys in the order addTask writes them.
StringifyTask(t) ==
    <<"{">> \o QuoteJson(<<"i", "d">>) \o <<":">> \o NumberToString(t.id)
    \o <<",">> \o QuoteJson(<<"t", "i", "t", "l", "e">>) \o <<":">>
    \o QuoteJson(t.title)
    \o <<",">> \o QuoteJson(<<"s", "t", "a", "t", "u", "s">>) \o <<":">>
    \o QuoteJson(t.status)
    \o <<",">>
    \o QuoteJson(<<"c", "r", "e", "a", "t", "e", "d", "A", "t">>) \o <<":">>
    \o QuoteJson(t.createdAt)
    \o <<"}">>

RECURSIVE StringifyElements(_)
StringifyElements(ts) ==
    IF ts = <<>> THEN <<>>
    ELSE IF Len(ts) = 1 THEN StringifyTask(ts[1])
    ELSE StringifyTask(ts[1]) \o <<",">> \o StringifyElements(Tail(ts))

JSONstringify(ts) == <<"[">> \o StringifyElements(ts) \o <<"]">>

----------------------------------------------------------------------------
\* JSON.parse: a recursive-descent parser of the text. Covered: arrays,
\* objects, strings with the escapes \" \\ \/, non-negative integers, null,
\* and spaces between tokens. Anything else is a SyntaxError.

Fail == [ok |-> FALSE]

RECURSIVE SkipSpace(_, _)
SkipSpace(s, i) ==
    IF i <= Len(s) /\ s[i] = " " THEN SkipSpace(s, i + 1) ELSE i

RECURSIVE KeyName(_)
KeyName(cs) == IF cs = <<>> THEN "" ELSE Head(cs) \o KeyName(Tail(cs))

\* The characters of a string from position i, after the opening quote.
RECURSIVE ParseChars(_, _, _)
ParseChars(s, i, acc) ==
    IF i > Len(s) THEN Fail
    ELSE IF s[i] = "\"" THEN
        [ok |-> TRUE, kind |-> "string", val |-> acc, next |-> i + 1]
    ELSE IF s[i] = "\\" THEN
        IF i + 1 <= Len(s) /\ s[i + 1] \in {"\"", "\\", "/"}
        THEN ParseChars(s, i + 2, Append(acc, s[i + 1]))
        ELSE Fail
    ELSE ParseChars(s, i + 1, Append(acc, s[i]))

RECURSIVE ParseDigits(_, _, _)
ParseDigits(s, i, acc) ==
    IF i <= Len(s) /\ IsDigit(s[i])
    THEN ParseDigits(s, i + 1, acc * 10 + DigitValue(s[i]))
    ELSE [ok |-> TRUE, kind |-> "number", val |-> acc, next |-> i]

\* A number: 0, or a digit 1-9 followed by digits.
ParseNumber(s, i) ==
    IF s[i] = "0"
    THEN [ok |-> TRUE, kind |-> "number", val |-> 0, next |-> i + 1]
    ELSE ParseDigits(s, i, 0)

ParseNull(s, i) ==
    IF i + 3 <= Len(s) /\ SubSeq(s, i, i + 3) = <<"n", "u", "l", "l">>
    THEN [ok |-> TRUE, kind |-> "null", val |-> <<>>, next |-> i + 4]
    ELSE Fail

RECURSIVE ParseValue(_, _)
RECURSIVE ParseElements(_, _, _)
RECURSIVE ParseMembers(_, _, _)

\* The elements of an array from position i (at an element), acc so far.
ParseElements(s, i, acc) ==
    LET v == ParseValue(s, i) IN
    IF ~v.ok THEN Fail
    ELSE LET j == SkipSpace(s, v.next) IN
         IF j > Len(s) THEN Fail
         ELSE IF s[j] = "," THEN ParseElements(s, j + 1, Append(acc, v.val))
         ELSE IF s[j] = "]" THEN
             [ok |-> TRUE, kind |-> "array", val |-> Append(acc, v.val),
              next |-> j + 1]
         ELSE Fail

\* The members of an object from position i (at a key), acc so far.
ParseMembers(s, i, acc) ==
    LET k == SkipSpace(s, i) IN
    IF k > Len(s) \/ s[k] # "\"" THEN Fail
    ELSE LET key == ParseChars(s, k + 1, <<>>) IN
         IF ~key.ok THEN Fail
         ELSE LET c == SkipSpace(s, key.next) IN
              IF c > Len(s) \/ s[c] # ":" THEN Fail
              ELSE LET v == ParseValue(s, c + 1) IN
                   IF ~v.ok THEN Fail
                   ELSE LET j == SkipSpace(s, v.next)
                            \* a repeated key keeps its last value
                            obj == (KeyName(key.val) :> v.val) @@ acc
                        IN IF j > Len(s) THEN Fail
                           ELSE IF s[j] = ","
                                THEN ParseMembers(s, j + 1, obj)
                           ELSE IF s[j] = "}" THEN
                               [ok |-> TRUE, kind |-> "object", val |-> obj,
                                next |-> j + 1]
                           ELSE Fail

ParseValue(s, i0) ==
    LET i == SkipSpace(s, i0) IN
    IF i > Len(s) THEN Fail
    ELSE IF s[i] = "[" THEN
        LET j == SkipSpace(s, i + 1) IN
        IF j <= Len(s) /\ s[j] = "]"
        THEN [ok |-> TRUE, kind |-> "array", val |-> <<>>, next |-> j + 1]
        ELSE ParseElements(s, i + 1, <<>>)
    ELSE IF s[i] = "{" THEN
        LET j == SkipSpace(s, i + 1) IN
        IF j <= Len(s) /\ s[j] = "}"
        THEN [ok |-> TRUE, kind |-> "object", val |-> [x \in {} |-> 0],
              next |-> j + 1]
        ELSE ParseMembers(s, i + 1, [x \in {} |-> 0])
    ELSE IF s[i] = "\"" THEN ParseChars(s, i + 1, <<>>)
    ELSE IF IsDigit(s[i]) THEN ParseNumber(s, i)
    ELSE IF s[i] = "n" THEN ParseNull(s, i)
    ELSE Fail

\* JSON.parse(text): the value, or threw (a SyntaxError).
JSONparse(s) ==
    LET v == ParseValue(s, 1) IN
    IF v.ok /\ SkipSpace(s, v.next) = Len(s) + 1
    THEN [threw |-> FALSE, kind |-> v.kind, val |-> v.val]
    ELSE [threw |-> TRUE]

----------------------------------------------------------------------------
\* The store: localStorage under STORAGE_KEY.

\* getItem gives null for a key that was never set.
Absent == [present |-> FALSE, text |-> <<>>]

Stored(text) == [present |-> TRUE, text |-> text]

\* loadTasks as it would be without its try/catch around JSON.parse.
loadTasksNoCatch(saved) ==
    IF ~saved.present \/ saved.text = <<>>
    THEN [threw |-> FALSE, value |-> <<>>]
    ELSE LET parsed == JSONparse(saved.text) IN
         IF parsed.threw THEN [threw |-> TRUE, value |-> <<>>]
         ELSE IF parsed.kind = "array"
              THEN [threw |-> FALSE, value |-> parsed.val]
              ELSE [threw |-> FALSE, value |-> <<>>]

\* loadTasks(): the array it returns, or threw when an exception escapes.
loadTasks(saved) ==
    IF ~saved.present \/ saved.text = <<>>
    THEN [threw |-> FALSE, value |-> <<>>]
    ELSE LET parsed == JSONparse(saved.text) IN
         IF parsed.threw THEN [threw |-> FALSE, value |-> <<>>]
         ELSE IF parsed.kind = "array"
              THEN [threw |-> FALSE, value |-> parsed.val]
              ELSE [threw |-> FALSE, value |-> <<>>]

\* saveTasks(): the value setItem leaves under the key.
saveTasks(ts) == Stored(JSONstringify(ts))

----------------------------------------------------------------------------
\* The view: the rows of taskTableBody.

\* escapeHtml: the innerHTML of a text node.
RECURSIVE escapeHtml(_)
escapeHtml(cs) ==
    IF cs = <<>> THEN <<>>
    ELSE LET c == Head(cs) IN
         (IF c = "&" THEN <<"&", "a", "m", "p", ";">>
          ELSE IF c = "<" THEN <<"&", "l", "t", ";">>
          ELSE IF c = ">" THEN <<"&", "g", "t", ";">>
          ELSE <<c>>) \o escapeHtml(Tail(cs))

EmptyRow == [cls |-> "empty-row", cells |-> <<>>, dataId |-> <<>>]

TaskRow(t) ==
    [cls |-> "task",
     cells |-> <<escapeHtml(t.title), t.status, t.createdAt>>,
     dataId |-> NumberToString(t.id)]

\* renderTasks as it would be without the return after the placeholder row.
renderTasksNoReturn(ts) ==
    IF Len(ts) = 0 THEN <<EmptyRow>>
    ELSE <<EmptyRow>> \o [i \in 1..Len(ts) |-> TaskRow(ts[i])]

\* renderTasks(): the table body after clearing it and drawing `ts`.
renderTasks(ts) ==
    IF Len(ts) = 0 THEN <<EmptyRow>>
    ELSE [i \in 1..Len(ts) |-> TaskRow(ts[i])]

\* tasks.filter((task) => task.id !== taskId)
RECURSIVE FilterOut(_, _)
FilterOut(ts, taskId) ==
    IF ts = <<>> THEN <<>>
    ELSE IF Head(ts).id # taskId
         THEN <<Head(ts)>> \o FilterOut(Tail(ts), taskId)
         ELSE FilterOut(Tail(ts), taskId)

----------------------------------------------------------------------------
\* Inputs and the page's elements.

Variants == {"local", "post", "form"}

\* What the user may have typed into the title input.
TitleInputs == {<<>>, <<" ">>, <<" ", "\"", "<", "\\", " ">>}

\* The options of the status selector.
Statuses == {<<"t", "o", "d", "o">>}

\* A task a previous visit left in localStorage.
StoredTask ==
    [id |-> StartTime - 1, title |-> <<"o", "l", "d">>,
     status |-> <<"d", "o", "n", "e">>,
     createdAt |-> ToLocaleString(StartTime - 1)]

\* Values that are no JSON text, or JSON text of something that is no array.
CorruptValues ==
    {Stored(<<"[", "{">>), Stored(<<"{", "}">>), Stored(<<"7">>),
     Stored(<<"n", "u", "l", "l">>)}

\* What localStorage may hold when the page opens.
InitialStorage ==
    {Absent, Stored(<<>>), saveTasks(<<>>), saveTasks(<<StoredTask>>)}
        \cup CorruptValues

TaskIds == (StartTime - 1)..(StartTime + MaxTicks)

Slots == 1..MaxSync

NoTask == [id |-> 0, title |-> <<>>, status |-> <<>>, createdAt |-> <<>>]

FreeSlot ==
    [phase |-> "free", body |-> <<>>, fields |-> <<>>, formAttached |-> FALSE,
     iframeAttached |-> FALSE, timer |-> FALSE, hasSubmitted |-> FALSE]

HiddenMessage == [text |-> "", error |-> FALSE, visible |-> FALSE]

\* The saveMessage element after showSaveMessage(messageText, isError).
showSaveMessage(messageText, isError) ==
    [text |-> messageText, error |-> isError, visible |-> TRUE]

\* JSON.stringify({title: task.title, status: task.status})
StringifyBody(t) ==
    <<"{">> \o QuoteJson(<<"t", "i", "t", "l", "e">>) \o <<":">>
    \o QuoteJson(t.title)
    \o <<",">> \o QuoteJson(<<"s", "t", "a", "t", "u", "s">>) \o <<":">>
    \o QuoteJson(t.status) \o <<"}">>

\* cleanup(): form.remove(); iframe.remove()
cleanup(slot) ==
    [slot EXCEPT !.formAttached = FALSE, !.iframeAttached = FALSE,
                 !.fields = <<>>]

\* A form call is over once its elements are gone and its timer has run.
Settle(slot) ==
    IF slot.phase = "form" /\ ~slot.formAttached /\ ~slot.iframeAttached
       /\ ~slot.timer
    THEN FreeSlot ELSE slot

FirstFree(sy) == CHOOSE s \in Slots :
    sy[s].phase = "free" /\ \A r \in Slots : sy[r].phase = "free" => s <= r

\* Sync calls that will still call showSaveMessage.
LiveShows ==
    Cardinality({s \in Slots :
        \/ sync[s].phase \in {"fetch", "text"}
        \/ sync[s].phase = "form"
           /\ (sync[s].formAttached \/ sync[s].iframeAttached)})

----------------------------------------------------------------------------
\* addTask's statements after validation, run on the handler's view `h` of
\* the page: [tasks, storage, dom, sync, input, msg, hides].

\* sendTaskToSheet(task) up to its first await: the request is issued.
sendTaskToSheet(h, t) ==
    [h EXCEPT !.sync[FirstFree(h.sync)] =
        [FreeSlot EXCEPT !.phase = "fetch", !.body = StringifyBody(t)]]

\* sendTaskToGoogleForm(task): form and iframe appended, listeners added,
\* the form submitted and the 700 ms timer set; or, when submit() throws,
\* the catch block.
sendTaskToGoogleForm(h, t, throws) ==
    IF throws
    THEN [h EXCEPT !.msg = showSaveMessage("Could not save", TRUE),
                   !.hides = @ + 1]
    ELSE [h EXCEPT !.sync[FirstFree(h.sync)] =
            [phase |-> "form", body |-> <<>>,
             fields |-> <<t.title, t.status, t.createdAt>>,
             formAttached |-> TRUE, iframeAttached |-> TRUE, timer |-> TRUE,
             hasSubmitted |-> TRUE]]

\* addTask as it would be if it sent the task before saving and rendering.
AddTaskBodySendFirst ==
    IF variant = "local"
    THEN <<"push", "save", "render", "clear">>
    ELSE <<"push", "send", "save", "render", "clear">>

\* The statements of addTask from the push on, in the order it runs them.
AddTaskBody ==
    IF variant = "local"
    THEN <<"push", "save", "render", "clear">>
    ELSE <<"push", "save", "render", "send", "clear">>

Exec(stmt, h, t, throws) ==
    CASE stmt = "push" -> [h EXCEPT !.tasks = Append(@, t)]
      [] stmt = "save" -> [h EXCEPT !.storage = saveTasks(h.tasks)]
      [] stmt = "render" -> [h EXCEPT !.dom = renderTasks(h.tasks)]
      [] stmt = "send" ->
            IF variant = "post" THEN sendTaskToSheet(h, t)
            ELSE sendTaskToGoogleForm(h, t, throws)
      [] stmt = "clear" -> [h EXCEPT !.input = <<>>]

RECURSIVE RunFrom(_, _, _, _, _)
RunFrom(body, k, h, t, throws) ==
    IF k > Len(body) THEN h
    ELSE RunFrom(body, k + 1, Exec(body[k], h, t, throws), t, throws)

View ==
    [tasks |-> tasks, storage |-> storage, dom |-> dom, sync |-> sync,
     input |-> taskTitleInput, msg |-> saveMessage, hides |-> pendingHides]

Commit(h) ==
    /\ tasks' = h.tasks
    /\ storage' = h.storage
    /\ dom' = h.dom
    /\ sync' = h.sync
    /\ taskTitleInput' = h.input
    /\ saveMessage' = h.msg
    /\ pendingHides' = h.hides

\* No handler is running, no modal dialog blocks the event loop.
Idle == pc = 0 /\ ~alertOpen /\ ~scriptError

\* Room, within the bounds, for one more task and one more sync call.
CanAdd ==
    /\ Len(tasks) < MaxTasks
    /\ \/ variant = "local"
       \/ /\ \E s \in Slots : sync[s].phase = "free"
          /\ LiveShows + pendingHides < MaxSync

SubmitOutcomes == IF variant = "form" THEN BOOLEAN ELSE {FALSE}

MakeTask(title, status) ==
    [id |-> now, title |-> title, status |-> status,
     createdAt |-> ToLocaleString(now)]

----------------------------------------------------------------------------
\* The page's life.

\* The script's top level: load, render, attach the listeners.
PageStart(st) ==
    LET out == loadTasks(st)
        ts == IF out.threw THEN <<>> ELSE out.value
    IN [threw |-> out.threw, tasks |-> ts,
        dom |-> IF out.threw THEN <<>> ELSE renderTasks(ts)]

Init ==
    /\ variant \in Variants
    /\ now = StartTime
    /\ storage \in InitialStorage
    /\ tasks = PageStart(storage).tasks
    /\ dom = PageStart(storage).dom
    /\ scriptError = PageStart(storage).threw
    /\ taskTitleInput = <<>>
    /\ alertOpen = FALSE
    /\ sync = [s \in Slots |-> FreeSlot]
    /\ saveMessage = HiddenMessage
    /\ pendingHides = 0
    /\ pc = 0
    /\ newTask = NoTask

\* The page is opened again on the same localStorage.
Reload ==
    /\ pc = 0
    /\ ~alertOpen
    /\ tasks' = PageStart(storage).tasks
    /\ dom' = PageStart(storage).dom
    /\ scriptError' = PageStart(storage).threw
    /\ taskTitleInput' = <<>>
    /\ sync' = [s \in Slots |-> FreeSlot]
    /\ saveMessage' = HiddenMessage
    /\ pendingHides' = 0
    /\ UNCHANGED <<variant, now, storage, alertOpen, pc, newTask>>

\* Date.now() moves on by a millisecond.
Tick ==
    /\ now < StartTime + MaxTicks
    /\ now' = now + 1
    /\ UNCHANGED <<variant, storage, tasks, dom, taskTitleInput, alertOpen,
                   sync, saveMessage, pendingHides, pc, newTask, scriptError>>

\* The user edits the title input.
TypeTitle(v) ==
    /\ Idle
    /\ v # taskTitleInput
    /\ taskTitleInput' = v
    /\ UNCHANGED <<variant, now, storage, tasks, dom, alertOpen, sync,
                   saveMessage, pendingHides, pc, newTask, scriptError>>

\* The user closes the alert; addTask returns.
DismissAlert ==
    /\ alertOpen
    /\ alertOpen' = FALSE
    /\ UNCHANGED <<variant, now, storage, tasks, dom, taskTitleInput, sync,
                   saveMessage, pendingHides, pc, newTask, scriptError>>

\* addTask as it would be if it validated the title before trimming it.
addTaskUntrimmedCheck ==
    /\ Idle
    /\ IF taskTitleInput = <<>>
       THEN /\ alertOpen' = TRUE
            /\ UNCHANGED <<tasks, storage, dom, sync, taskTitleInput,
                           saveMessage, pendingHides>>
       ELSE /\ CanAdd
            /\ \E status \in Statuses, throws \in SubmitOutcomes :
                 Commit(RunFrom(AddTaskBody, 1, View,
                                MakeTask(Trim(taskTitleInput), status),
                                throws))
            /\ UNCHANGED alertOpen
    /\ UNCHANGED <<variant, now, pc, newTask, scriptError>>

\* addTask(), the click or the Enter key, as one run of the handler.
addTask ==
    /\ Idle
    /\ IF Trim(taskTitleInput) = <<>>
       THEN /\ alertOpen' = TRUE
            /\ UNCHANGED <<tasks, storage, dom, sync, taskTitleInput,
                           saveMessage, pendingHides>>
       ELSE /\ CanAdd
            /\ \E status \in Statuses, throws \in SubmitOutcomes :
                 Commit(RunFrom(AddTaskBody, 1, View,
                                MakeTask(Trim(taskTitleInput), status),
                                throws))
            /\ UNCHANGED alertOpen
    /\ UNCHANGED <<variant, now, pc, newTask, scriptError>>

\* deleteTask as it would be without its saveTasks() call.
deleteTaskNoSave(taskId) ==
    /\ Idle
    /\ UNCHANGED <<variant, now, storage, taskTitleInput, alertOpen, sync,
                   saveMessage, pendingHides, pc, newTask, scriptError>>
    /\ tasks' = FilterOut(tasks, taskId)
    /\ dom' = renderTasks(tasks')

\* deleteTask(taskId)
deleteTask(taskId) ==
    /\ Idle
    /\ UNCHANGED <<variant, now, taskTitleInput, alertOpen, sync, saveMessage,
                   pendingHides, pc, newTask, scriptError>>
    /\ tasks' = FilterOut(tasks, taskId)
    /\ storage' = saveTasks(tasks')
    /\ dom' = renderTasks(tasks')

\* The click listener of the delete button of row i.
ClickDelete(i) ==
    /\ dom[i].cls = "task"
    /\ deleteTask(Number(dom[i].dataId))

----------------------------------------------------------------------------
\* The transient message and the continuations of a sync call. Each runs as
\* a task of the event loop, so only when no handler is running.

\* showSaveMessage as an outcome's effect: the element, and one more timer.
Show(messageText, isError) ==
    /\ saveMessage' = showSaveMessage(messageText, isError)
    /\ pendingHides' = pendingHides + 1

\* A setTimeout(..., 1800) callback of showSaveMessage runs; timers of equal
\* delay run in the order they were set.
HideTimer ==
    /\ Idle
    /\ pendingHides > 0
    /\ saveMessage' = [saveMessage EXCEPT !.visible = FALSE]
    /\ pendingHides' = pendingHides - 1
    /\ UNCHANGED <<variant, now, storage, tasks, dom, taskTitleInput,
                   alertOpen, sync, pc, newTask, scriptError>>

SyncFrame ==
    UNCHANGED <<variant, now, storage, tasks, dom, taskTitleInput, alertOpen,
                pc, newTask, scriptError>>

\* fetch resolved with response.ok
FetchOk(s) ==
    /\ Idle
    /\ sync[s].phase = "fetch"
    /\ Show("Saved to Sheet", FALSE)
    /\ sync' = [sync EXCEPT ![s] = FreeSlot]
    /\ SyncFrame

\* fetch resolved with a status outside the ok range: await response.text()
FetchNotOk(s) ==
    /\ Idle
    /\ sync[s].phase = "fetch"
    /\ sync' = [sync EXCEPT ![s].phase = "text"]
    /\ UNCHANGED <<saveMessage, pendingHides>>
    /\ SyncFrame

\* FetchReject as it would be if the catch block took the task back.
FetchRejectRollsBack(s) ==
    /\ Idle
    /\ sync[s].phase = "fetch"
    /\ Show("Could not save to Sheet. Please try again.", TRUE)
    /\ sync' = [sync EXCEPT ![s] = FreeSlot]
    /\ tasks' = SubSeq(tasks, 1, Len(tasks) - 1)
    /\ storage' = saveTasks(tasks')
    /\ dom' = renderTasks(tasks')
    /\ UNCHANGED <<variant, now, taskTitleInput, alertOpen, pc, newTask,
                   scriptError>>

\* fetch rejected (a network error): the catch block
FetchReject(s) ==
    /\ Idle
    /\ sync[s].phase = "fetch"
    /\ Show("Could not save to Sheet. Please try again.", TRUE)
    /\ sync' = [sync EXCEPT ![s] = FreeSlot]
    /\ SyncFrame

\* response.text() settled: resolved, the error is logged and shown; rejected,
\* the catch block logs and shows the same message.
ResponseText(s) ==
    /\ Idle
    /\ sync[s].phase = "text"
    /\ Show("Could not save to Sheet. Please try again.", TRUE)
    /\ sync' = [sync EXCEPT ![s] = FreeSlot]
    /\ SyncFrame

\* The iframe's load listener. An iframe removed from the document has no
\* browsing context left and fires no further event.
IframeLoad(s) ==
    /\ Idle
    /\ sync[s].phase = "form"
    /\ sync[s].iframeAttached
    /\ IF ~sync[s].hasSubmitted
       THEN UNCHANGED <<sync, saveMessage, pendingHides>>
       ELSE /\ Show("Saved to Google Sheet", FALSE)
            /\ sync' = [sync EXCEPT ![s] = Settle(cleanup(sync[s]))]
    /\ SyncFrame

\* The iframe's error listener.
IframeError(s) ==
    /\ Idle
    /\ sync[s].phase = "form"
    /\ sync[s].iframeAttached
    /\ Show("Could not save", TRUE)
    /\ sync' = [sync EXCEPT ![s] = Settle(cleanup(sync[s]))]
    /\ SyncFrame

\* SubmitTimeout as it would be without the document.body.contains test.
SubmitTimeoutUnguarded(s) ==
    /\ Idle
    /\ sync[s].phase = "form"
    /\ sync[s].timer
    /\ Show("Saved to Google Sheet", FALSE)
    /\ sync' = [sync EXCEPT
           ![s] = Settle(cleanup([sync[s] EXCEPT !.timer = FALSE]))]
    /\ SyncFrame

\* The setTimeout(..., 700) callback set after form.submit().
SubmitTimeout(s) ==
    /\ Idle
    /\ sync[s].phase = "form"
    /\ sync[s].timer
    /\ IF sync[s].formAttached \/ sync[s].iframeAttached
       THEN /\ Show("Saved to Google Sheet", FALSE)
            /\ sync' = [sync EXCEPT
                   ![s] = Settle(cleanup([sync[s] EXCEPT !.timer = FALSE]))]
       ELSE /\ sync' = [sync EXCEPT
                   ![s] = Settle([sync[s] EXCEPT !.timer = FALSE])]
            /\ UNCHANGED <<saveMessage, pendingHides>>
    /\ SyncFrame

----------------------------------------------------------------------------
\* addTask statement by statement: what the page looks like between two
\* statements of the handler. Nothing else runs until the handler returns.

AddTaskEnter ==
    /\ Idle
    /\ IF Trim(taskTitleInput) = <<>>
       THEN /\ alertOpen' = TRUE
            /\ UNCHANGED <<pc, newTask>>
       ELSE /\ CanAdd
            /\ \E status \in Statuses :
                 newTask' = MakeTask(Trim(taskTitleInput), status)
            /\ pc' = 1
            /\ UNCHANGED alertOpen
    /\ UNCHANGED <<variant, now, storage, tasks, dom, taskTitleInput, sync,
                   saveMessage, pendingHides, scriptError>>

AddTaskStep ==
    /\ pc >= 1
    /\ \E throws \in SubmitOutcomes :
         Commit(Exec(AddTaskBody[pc], View, newTask, throws))
    /\ pc' = IF pc = Len(AddTaskBody) THEN 0 ELSE pc + 1
    /\ newTask' = IF pc = Len(AddTaskBody) THEN NoTask ELSE newTask
    /\ UNCHANGED <<variant, now, alertOpen, scriptError>>

----------------------------------------------------------------------------

Environment ==
    \/ Reload
    \/ Tick
    \/ \E v \in TitleInputs : TypeTitle(v)
    \/ DismissAlert
    \/ \E taskId \in TaskIds : deleteTask(taskId)
    \/ \E i \in 1..Len(dom) : ClickDelete(i)
    \/ HideTimer
    \/ \E s \in Slots : FetchOk(s)
    \/ \E s \in Slots : FetchNotOk(s)
    \/ \E s \in Slots : FetchReject(s)
    \/ \E s \in Slots : ResponseText(s)
    \/ \E s \in Slots : IframeLoad(s)
    \/ \E s \in Slots : IframeError(s)
    \/ \E s \in Slots : SubmitTimeout(s)

Next == addTask \/ Environment

Spec == Init /\ [][Next]_vars

NextSteps == AddTaskEnter \/ AddTaskStep \/ Environment

SpecSteps == Init /\ [][NextSteps]_vars

\* The form variant alone, with the event loop's progress: a modal dialog is
\* closed, and a timer that is due runs at one of the moments the loop is
\* free, however often a dialog or a handler holds it in between.
InitForm == Init /\ variant = "form"

NextForm ==
    \/ addTask
    \/ Reload
    \/ Tick
    \/ \E v \in TitleInputs : TypeTitle(v)
    \/ DismissAlert
    \/ \E taskId \in TaskIds : deleteTask(taskId)
    \/ \E i \in 1..Len(dom) : ClickDelete(i)
    \/ HideTimer
    \/ \E s \in Slots : IframeLoad(s)
    \/ \E s \in Slots : IframeError(s)
    \/ \E s \in Slots : SubmitTimeout(s)

FormSpec ==
    /\ InitForm
    /\ [][NextForm]_vars
    /\ WF_vars(DismissAlert)
    /\ \A s \in Slots : SF_vars(SubmitTimeout(s))

----------------------------------------------------------------------------
\* Properties.

Loaded == loadTasks(storage).value

HasId(ts, id) == \E i \in 1..Len(ts) : ts[i].id = id

TaskRows == {i \in 1..Len(dom) : dom[i].cls = "task"}

PlaceholderRows == {i \in 1..Len(dom) : dom[i].cls = "empty-row"}

Attached(s) == sync[s].formAttached \/ sync[s].iframeAttached

\* C1: addTask on a title that is empty after trimming opens the alert and
\* changes neither the task list, nor the stored value, nor the rendered
\* rows, nor the input, and starts no sync call and shows no message.
C1_BlankTitleRejected ==
    [][(addTask /\ Trim(taskTitleInput) = <<>>) =>
          /\ alertOpen'
          /\ UNCHANGED <<tasks, storage, dom, sync, saveMessage,
                         pendingHides, taskTitleInput>>]_vars

C1_Witness ==
    /\ alertOpen
    /\ taskTitleInput = <<" ">>
    /\ Len(tasks) = 1
    /\ Loaded = tasks

\* C2: a load of the stored value gives the in-memory list, and deleteTask(id)
\* leaves no task with that id in it, so that a load after it gives none; and
\* when no task had that id, the list, and with it the list a load gives, is
\* what it was, and nothing is thrown.
C2_RemoveThenLoad ==
    /\ [](loadTasks(storage) = [threw |-> FALSE, value |-> tasks])
    /\ [][\A id \in TaskIds : deleteTask(id) =>
             /\ ~HasId(tasks', id)
             /\ ~scriptError'
             /\ ~HasId(tasks, id) => tasks' = tasks]_vars

\* A sync call of a task that was added and then removed.
C2_Witness ==
    /\ \E s \in Slots : sync[s].phase = "fetch"
    /\ tasks = <<>>
    /\ storage = saveTasks(<<>>)

\* C3: the table body holds one task row per task, and the placeholder row,
\* alone, exactly when there is no task.
C3_RowsMatchTasks ==
    /\ Cardinality(TaskRows) = Len(tasks)
    /\ Len(tasks) = 0 <=> PlaceholderRows # {}
    /\ Cardinality(PlaceholderRows) <= 1
    /\ \A i \in TaskRows : dom[i] = TaskRow(tasks[i])

C3_Witness ==
    /\ Len(tasks) = 2
    /\ Cardinality(TaskRows) = 2
    /\ tasks[2].id > StartTime

\* C4: loading the stored value gives the in-memory list, task by task and
\* in order, and so does saving the list and loading it.
C4_RoundTrip ==
    /\ loadTasks(storage) = [threw |-> FALSE, value |-> tasks]
    /\ loadTasks(saveTasks(tasks)) = [threw |-> FALSE, value |-> tasks]

C4_Witness ==
    /\ Len(tasks) = 2
    /\ \E i \in 1..Len(tasks[2].title) : tasks[2].title[i] = "\""
    /\ storage = saveTasks(tasks)
    /\ Loaded = tasks

\* C5: no two tasks of the list share an id.
C5_UniqueIds ==
    \A i, j \in 1..Len(tasks) : i # j => tasks[i].id # tasks[j].id

\* C6: when addTask issues the sync call the new task is already stored and
\* already drawn, the drawing was done with the task stored, and the state
\* of a sync call under way changes only when no handler is running.
C6_SaveRenderThenSend ==
    [][/\ (pc >= 1 /\ pc' # pc /\ AddTaskBody[pc] = "send") =>
             /\ HasId(Loaded, newTask.id)
             /\ Loaded = tasks
             /\ dom = renderTasks(tasks)
             /\ tasks[Len(tasks)] = newTask
       /\ (pc >= 1 /\ pc' # pc /\ AddTaskBody[pc] = "render") =>
             Loaded = tasks /\ tasks[Len(tasks)] = newTask
       /\ \A s \in Slots :
             (sync[s].phase # "free" /\ sync'[s] # sync[s]) => pc = 0]_vars

\* addTask just after the send: the call is under way, the task stored.
C6_Witness ==
    /\ pc >= 1
    /\ AddTaskBody[pc] = "clear"
    /\ \E s \in Slots : sync[s].body = StringifyBody(newTask)
    /\ Loaded = tasks
    /\ dom = renderTasks(tasks)
    /\ Len(tasks) = 2

\* C7: a timer of showSaveMessage hides a visible message only when it is
\* the timer of the latest call, that is, when no later timer is pending.
C7_LatestTimerHides ==
    [][(HideTimer /\ saveMessage.visible) => pendingHides = 1]_vars

SyncOutcome(s) ==
    \/ FetchOk(s)
    \/ FetchNotOk(s)
    \/ FetchReject(s)
    \/ ResponseText(s)
    \/ IframeLoad(s)
    \/ IframeError(s)
    \/ SubmitTimeout(s)

\* C8: no outcome of a sync call changes the task list, the stored value or
\* the rendered rows, and none starts a sync call.
C8_OutcomeLeavesTasks ==
    [][\A s \in Slots : SyncOutcome(s) =>
          /\ UNCHANGED <<tasks, storage, dom>>
          /\ \A r \in Slots :
                /\ sync[r].phase = "free" => sync'[r].phase = "free"
                /\ sync'[r].phase = "fetch" => sync[r].phase = "fetch"
                /\ sync'[r].timer => sync[r].timer]_vars

\* A failure was shown, the task is still there and stored, no call is left.
C8_Witness ==
    /\ variant = "post"
    /\ saveMessage.visible /\ saveMessage.error
    /\ Len(tasks) = 1 /\ tasks[1].id >= StartTime
    /\ Loaded = tasks
    /\ \A s \in Slots : sync[s].phase = "free"

\* C9: with the key absent, or holding text that is no JSON or JSON of
\* something that is no array, loadTasks returns the empty list and throws
\* nothing, and the page starts on an empty list.
C9_CorruptLoadsEmpty ==
    storage \in CorruptValues \cup {Absent, Stored(<<>>)} =>
        /\ loadTasks(storage) = [threw |-> FALSE, value |-> <<>>]
        /\ ~scriptError
        /\ tasks = <<>>
        /\ dom = <<EmptyRow>>

C9_Witness ==
    /\ storage = Stored(<<"{", "}">>)
    /\ tasks = <<>>
    /\ dom = <<EmptyRow>>
    /\ taskTitleInput # <<>>

FormSignal(s) == IframeLoad(s) \/ IframeError(s) \/ SubmitTimeout(s)

\* C10: of the signals of one form call (load, error, the 700 ms timer) the
\* first, which finds the elements in the document, shows one message
\* (success on load and on the timer) and removes both elements; a later one
\* shows nothing; and elements in the document are in the end removed.
C10_OneOutcome ==
    /\ [][\A s \in Slots : FormSignal(s) =>
             /\ pendingHides' = pendingHides + (IF Attached(s) THEN 1 ELSE 0)
             /\ ~sync'[s].formAttached /\ ~sync'[s].iframeAttached
             /\ ~Attached(s) => saveMessage' = saveMessage
             /\ (Attached(s) /\ ~IframeError(s)) =>
                   saveMessage' = showSaveMessage("Saved to Google Sheet",
                                                  FALSE)]_vars
    /\ \A s \in Slots : Attached(s) ~> ~Attached(s)

\* The load came first: the elements are gone, the timer is still to run.
C10_Witness ==
    \E s \in Slots :
        /\ sync[s].phase = "form"
        /\ ~Attached(s)
        /\ sync[s].timer
        /\ saveMessage = showSaveMessage("Saved to Google Sheet", FALSE)
        /\ pendingHides = 1

====
